---- MODULE Spec2Model ----
(***************************************************************************)
(* PaginatedSelect (packages/paginated-select/src/PaginatedSelect.tsx):    *)
(* the React function component as a state machine.                        *)
(*                                                                         *)
(* A state of the model is the component at rest: every render and every   *)
(* effect that an event causes has run (React 18 batches the state updates *)
(* of one event or of one promise continuation into one render, and runs   *)
(* the effects of a render before the next render).  One action is one     *)
(* event: a prop change by the parent, a user event (search input, scroll  *)
(* to the bottom), time passing, or the settlement of a promise            *)
(* returned by the adapter.                                                *)
(***************************************************************************)
EXTENDS Integers, Sequences, FiniteSets, Bags, TLC

(***************************************************************************)
(* Bounds of the model.                                                    *)
(***************************************************************************)
\* list calls that may be outstanding at once (a further call is not explored)
MaxInFlight == 2
\* the page number scrolling may reach (a further scroll is not explored)
MaxPage == 2
\* by-id queries the query cache may hold (a further query is not explored)
MaxQueries == 2
\* prop changes and search inputs in a run (a further one is not explored)
MaxChanges == 1

(***************************************************************************)
(* Program constants.                                                      *)
(***************************************************************************)
\* pageSize = 10 (default prop)
pageSize == 10
\* setTimeout(..., 300)
DebounceMs == 300

(***************************************************************************)
(* JavaScript values that are not strings.                                 *)
(***************************************************************************)
Undefined == "<undefined>"
Null == "<null>"

(***************************************************************************)
(* The inputs of the model.                                                *)
(***************************************************************************)
Values == {"u1", "u2"}

\* OptionType: what getValue / getLabel make of an item of the adapter
Opt(v, l) == [value |-> v, label |-> l]

\* the items of a list response, already mapped: an empty page, pages that
\* repeat a value, a changed label, a label equal to the value, an empty label
PageItems ==
  { <<>>,
    <<Opt("u1", "Ann")>>,
    <<Opt("u1", "Ann"), Opt("u2", "Bob")>>,
    <<Opt("u1", "Anna"), Opt("u1", "Ann")>>,
    <<Opt("u1", "u1"), Opt("u2", "")>> }

\* the pagination signal of a list response: {hasMore}, {total} or neither
Sig(k, h, t) == [kind |-> k, hasMore |-> h, total |-> t]
\* an adapter with cursor-style pagination answers { items, hasMore }
CursorSignals == {Sig("hasMore", h, 0) : h \in BOOLEAN}
\* an adapter with total-count pagination answers { items, total }, and one
\* that is malformed answers neither field
Totals == {20, 25}
TotalSignals == {Sig("total", FALSE, t) : t \in Totals} \cup {Sig("none", FALSE, 0)}

\* what a lookup (getById, or getByIds keyed by getValue) gives for an id: a
\* label, or Null (no item, or the call rejected)
LookupLabels(id) == IF id = "u1" THEN {"Ann", Null} ELSE {"Bob", Null}

Terms == {"", "a"}
ParamsValues == {Undefined, "{\"d\":1}"}
DependencyKeys == {Undefined, Null, "k1"}

\* the sequences over S without repetition, of length at most n
RECURSIVE SeqsNoDup(_, _)
SeqsNoDup(S, n) ==
  IF n = 0 THEN {<<>>}
  ELSE {<<>>} \cup UNION {{<<x>> \o t : t \in SeqsNoDup(S \ {x}, n - 1)} : x \in S}

Range(f) == {f[i] : i \in DOMAIN f}

(***************************************************************************)
(* Pure functions of the component.                                        *)
(***************************************************************************)
\* The value prop is modelled by the array getValuesArray makes of it: <<>>
\* for undefined (and for []), <<v>> for the string v, the array otherwise.
getValuesArray(val) == val

selectedSet(val) == Range(getValuesArray(val))

\* data.some((o) => o.value === v)
HasValue(d, v) == \E i \in DOMAIN d : d[i].value = v

\* a variant of missingValues that takes every selected value
missingValuesAll(val, d) == getValuesArray(val)

missingValues(val, d) == SelectSeq(getValuesArray(val), LAMBDA v : ~HasValue(d, v))

\* for (const it of merged) if (!seen.has(it.value)) { seen.add; out.push }
RECURSIVE DedupeFrom(_, _, _)
DedupeFrom(merged, i, out) ==
  IF i > Len(merged) THEN out
  ELSE DedupeFrom(merged, i + 1,
                  IF HasValue(out, merged[i].value) THEN out ELSE Append(out, merged[i]))

\* a variant of Dedupe that keeps every element
DedupeKeepAll(merged) == merged

Dedupe(merged) == DedupeFrom(merged, 1, <<>>)

\* a variant of MergePage that puts the items of a page above 1 in front
MergePageFreshFirst(prev, pageNumber, mapped, sel) ==
  LET preserved == IF pageNumber = 1
                   THEN SelectSeq(prev, LAMBDA o : o.value \in sel)
                   ELSE <<>>
      base == IF pageNumber = 1 THEN mapped ELSE mapped \o prev
      merged == IF pageNumber = 1 THEN preserved \o base ELSE base
  IN Dedupe(merged)

\* the updater loadData passes to setData
MergePage(prev, pageNumber, mapped, sel) ==
  LET preserved == IF pageNumber = 1
                   THEN SelectSeq(prev, LAMBDA o : o.value \in sel)
                   ELSE <<>>
      base == IF pageNumber = 1 THEN mapped ELSE prev \o mapped
      merged == IF pageNumber = 1 THEN preserved \o base ELSE base
  IN Dedupe(merged)

\* a variant of NextHasMore that compares with <= instead of <
NextHasMoreInclusive(sig, pageNumber) ==
  IF sig.kind = "hasMore" THEN sig.hasMore
  ELSE IF sig.kind = "total" THEN pageNumber * pageSize <= sig.total
  ELSE FALSE

\* nextHasMore of loadData
NextHasMore(sig, pageNumber) ==
  IF sig.kind = "hasMore" THEN sig.hasMore
  ELSE IF sig.kind = "total" THEN pageNumber * pageSize < sig.total
  ELSE FALSE

\* the updater of the inject effect; items is a sequence of [id, label], label
\* Null for { id, item: null }
\* a variant of InjectFrom that stops at the first { id, item: null }
RECURSIVE InjectFromUntilNull(_, _, _)
InjectFromUntilNull(items, i, next) ==
  IF i > Len(items) \/ items[i].label = Null THEN next
  ELSE InjectFromUntilNull(items, i + 1,
                           IF items[i].id = "" \/ HasValue(next, items[i].id)
                           THEN next
                           ELSE <<Opt(items[i].id, items[i].label)>> \o next)

\* a variant of InjectFrom that makes an option, labelled with the id, of a
\* { id, item: null }
RECURSIVE InjectFromNullToo(_, _, _)
InjectFromNullToo(items, i, next) ==
  IF i > Len(items) THEN next
  ELSE InjectFromNullToo(items, i + 1,
                         IF items[i].id = "" \/ HasValue(next, items[i].id)
                         THEN next
                         ELSE <<Opt(items[i].id,
                                    IF items[i].label = Null THEN items[i].id
                                    ELSE items[i].label)>> \o next)

RECURSIVE InjectFrom(_, _, _)
InjectFrom(items, i, next) ==
  IF i > Len(items) THEN next
  ELSE InjectFrom(items, i + 1,
                  IF items[i].label = Null \/ items[i].id = "" \/ HasValue(next, items[i].id)
                  THEN next
                  ELSE <<Opt(items[i].id, items[i].label)>> \o next)

\* a variant of Inject that puts the new options behind the old ones
RECURSIVE InjectBehind(_, _)
InjectBehind(prev, items) ==
  IF Len(items) = 0 THEN prev
  ELSE InjectBehind(IF items[1].label = Null \/ items[1].id = "" \/ HasValue(prev, items[1].id)
                    THEN prev
                    ELSE Append(prev, Opt(items[1].id, items[1].label)),
                    Tail(items))

Inject(prev, items) == InjectFrom(items, 1, prev)

\* a variant of HasLabel that takes a label equal to the value for a label
HasLabelOrSelf(d, v) == \E i \in DOMAIN d : d[i].value = v /\ d[i].label # ""

\* data.some((o) => o.value === v && o.label && o.label !== v)
HasLabel(d, v) == \E i \in DOMAIN d : d[i].value = v /\ d[i].label # "" /\ d[i].label # v

hasAllLabels(val, d) ==
  IF val = <<>> THEN TRUE
  ELSE \A i \in DOMAIN getValuesArray(val) : HasLabel(d, getValuesArray(val)[i])

\* a variant of effectiveValue without the label check
effectiveValueUnchecked(val, mult, d) == val

\* a variant of effectiveValue that hides the whole selection of a multiple
\* select while one label is missing
effectiveValueAllOrNothing(val, mult, d) ==
  IF val = <<>> THEN <<>>
  ELSE IF hasAllLabels(val, d) THEN val
  ELSE <<>>

\* the value handed to Select; <<>> stands for undefined (and for [])
effectiveValue(val, mult, d) ==
  IF val = <<>> THEN <<>>
  ELSE IF hasAllLabels(val, d) THEN val
  ELSE IF mult THEN SelectSeq(getValuesArray(val), LAMBDA v : HasLabel(d, v))
  ELSE <<>>

(***************************************************************************)
(* The state.                                                              *)
(***************************************************************************)
VARIABLES
  multiple,            \* prop multiple (fixed for an instance)
  dataAdapter,         \* prop dataAdapter (fixed): whether it has getById and
                       \* getByIds, the items (pages) and the pagination
                       \* signals (signals) its list responses are made of
  scope,               \* what a run explores (fixed): the step of time tickMs,
                       \* the page number pageCap scrolling may reach, the
                       \* counts changeCap and inputCap of changes up to which
                       \* prop changes and search input are explored, the
                       \* count teardownCap of changes after which a teardown
                       \* is still explored, and the history variables
                       \* that are kept
  value,               \* prop value, as getValuesArray sees it
  params,              \* prop params: Undefined or the JSON text of the object
  dependencyKey,       \* prop dependencyKey
  debug,               \* prop debug
  mounted,             \* the instance is mounted (false after its teardown)
  data, page, hasMore, fetching, searchTerm, debouncedSearchTerm,   \* useState
  isPagingRef, lastKickoffKeyRef,                                   \* useRef
  ldFetching,          \* the `fetching` the memoised loadData closes over
  timer,               \* ms until the pending debounce timeout fires, 0: none
  quiet,               \* history: ms since the mount or the last onSearch
                       \* call, up to DebounceMs
  calls,               \* bag of the adapter.list calls in flight
  queries,             \* the query cache: query key -> result of queryFn
  lookups,             \* the query keys whose queryFn is running
  superseded,          \* history (kept where scope.history has "superseded"):
                       \* the query keys
                       \* whose result arrived while the query key of
                       \* the render was another
  requested,           \* history (kept where scope.history has "requested"):
                       \* the page numbers of the list calls issued since
                       \* the last change of the session
  changes,             \* the prop changes and search inputs so far
  snap,                \* history: the selected, labelled options at the last
                       \* change of the kickoff key, until its page 1 settles
  failed,              \* history: a list call has rejected and no prop has
                       \* changed and no search term has settled since
  last                 \* history: the event that led to this state, the list
                       \* call it settled, the page numbers of the list calls
                       \* it issued and, of a list call that resolved, the
                       \* length of data before and the data its setData
                       \* updater returned

vars ==
  <<multiple, dataAdapter, scope, value, params, dependencyKey, debug, mounted, data, page,
    hasMore, fetching, searchTerm, debouncedSearchTerm, isPagingRef, lastKickoffKeyRef,
    ldFetching, timer, quiet, calls, queries, lookups, superseded, requested, changes,
    snap, failed, last>>

\* the state the effects read and write
Cur ==
  [data |-> data, page |-> page, hasMore |-> hasMore, fetching |-> fetching,
   isPaging |-> isPagingRef, lastKey |-> lastKickoffKeyRef, calls |-> calls,
   queries |-> queries, lookups |-> lookups, snap |-> snap, issued |-> <<>>,
   over |-> FALSE]

\* what a render closes over besides the state
Ctx ==
  [value |-> value, params |-> params, dependencyKey |-> dependencyKey,
   debounced |-> debouncedSearchTerm, ldFetching |-> ldFetching, caps |-> dataAdapter]

\* a list call in flight: its arguments, the selectedSet its loadData closed
\* over, and (history) whether the kickoff effect issued it and whether the
\* kickoff key is still the one it was issued under
Call(pageNumber, search, pv, sel, kick) ==
  [page |-> pageNumber, search |-> search, params |-> pv, sel |-> sel,
   kick |-> kick, cur |-> TRUE]

NoCall == [page |-> 0, kick |-> FALSE, cur |-> FALSE]
NoSig == Sig("", FALSE, 0)
Ev(e, c, sig, r) ==
  [ev |-> e, page |-> c.page, kick |-> c.kick, cur |-> c.cur, sig |-> sig,
   issued |-> r.issued, had |-> 0, stored |-> <<>>]

\* every call in the bag marked as issued under an earlier kickoff key
MarkStale(B) ==
  LET S == BagToSet(B)
      T == {[c EXCEPT !.cur = FALSE] : c \in S}
      N(c) == IF c \in S THEN B[c] ELSE 0
  IN [t \in T |-> N(t) + N([t EXCEPT !.cur = TRUE])]

(***************************************************************************)
(* The kickoff key and the query key.                                      *)
(***************************************************************************)
\* `${dependencyKey ?? ""}`
DepText(k) == IF k \in {Undefined, Null} THEN "" ELSE k

\* JSON.stringify(params) ?? ""
ParamsText(pv) == IF pv = Undefined THEN "" ELSE pv

KickoffKey(p) == DepText(p.dependencyKey) \o "|" \o ParamsText(p.params) \o "|" \o p.debounced

\* the query cache hashes the key with JSON.stringify: in an array undefined
\* is written as null
HashDep(k) == IF k \in {Undefined, Null} THEN "null" ELSE "\"" \o k \o "\""

\* a variant of QueryKey without the dependencyKey
QueryKeyNoDependency(s, p) == <<missingValues(p.value, s.data), "null">>

\* queryKey: ["ps-byId", ns.current, missingValues, dependencyKey]
QueryKey(s, p) == <<missingValues(p.value, s.data), HashDep(p.dependencyKey)>>

QueryEnabled(s, p) ==
  (p.caps.getById \/ p.caps.getByIds) /\ Len(missingValues(p.value, s.data)) > 0

\* itemsById of a render: the cached result of the query key, <<>> for
\* undefined (no result yet) and for the empty result
itemsById(s, p) ==
  IF QueryKey(s, p) \in DOMAIN s.queries THEN s.queries[QueryKey(s, p)] ELSE <<>>

\* the identity of itemsById: one array per query that has a result
ItemsRef(s, p) == IF QueryKey(s, p) \in DOMAIN s.queries THEN <<QueryKey(s, p)>> ELSE <<>>

(***************************************************************************)
(* The effects.  s is the state of the render the effect closes over, n    *)
(* the state with the updates queued so far (and the refs), p the props.   *)
(***************************************************************************)
\* useEffect(..., [dependencyKey])
ResetEffect(n) ==
  [n EXCEPT !.data = <<>>, !.page = 1, !.hasMore = TRUE, !.fetching = FALSE,
            !.isPaging = FALSE]

\* useQuery: the observer starts queryFn for the key of the render when the
\* query is enabled, has no result in the cache and is not already running
QueryObserver(s, n, p) ==
  LET k == QueryKey(s, p) IN
  IF QueryEnabled(s, p) /\ k \notin DOMAIN n.queries /\ k \notin n.lookups
  THEN IF Cardinality(DOMAIN n.queries \cup n.lookups) >= MaxQueries
       THEN [n EXCEPT !.over = TRUE]
       ELSE [n EXCEPT !.lookups = @ \cup {k}]
  ELSE n

\* useEffect(..., [itemsById, dataAdapter, log])
InjectEffect(s, n, p) ==
  IF Len(itemsById(s, p)) = 0 THEN n
  ELSE [n EXCEPT !.data = Inject(@, itemsById(s, p))]

\* loadData(pageNumber, search) up to its await
loadData(n, p, pageNumber, search, kick) ==
  IF p.ldFetching THEN n
  ELSE IF BagCardinality(n.calls) >= MaxInFlight THEN [n EXCEPT !.over = TRUE]
  ELSE [n EXCEPT !.fetching = TRUE,
                 !.calls = @ (+) SetToBag({Call(pageNumber, search, p.params,
                                                selectedSet(p.value), kick)}),
                 !.issued = Append(@, pageNumber)]

\* the options of d that are selected and have a resolved label
SelectedLabelled(d, val) == {d[i] : i \in {j \in DOMAIN d : d[j].value \in selectedSet(val) /\ HasLabel(d, d[j].value)}}

\* useEffect(..., [debouncedSearchTerm, dependencyKey, params])
KickoffEffect(s, n, p) ==
  IF n.lastKey = KickoffKey(p) THEN n
  ELSE loadData([n EXCEPT !.lastKey = KickoffKey(p), !.page = 1, !.hasMore = TRUE,
                          !.isPaging = TRUE, !.calls = MarkStale(@),
                          !.snap = SelectedLabelled(s.data, p.value)],
                p, 1, p.debounced, TRUE)

\* useEffect(..., [page, hasMore, debouncedSearchTerm, loadData])
LoadMoreEffect(s, n, p) ==
  IF s.page > 1 /\ s.hasMore THEN loadData(n, p, s.page, p.debounced, FALSE) ELSE n

\* the effects of one render, in the order of their declaration; ch names the
\* dependencies that changed since the render before
RunEffects(s, p, ch) ==
  LET n1 == IF "dependencyKey" \in ch THEN ResetEffect(s) ELSE s
      n2 == QueryObserver(s, n1, p)
      n3 == IF ch \cap {"itemsById", "log"} # {} THEN InjectEffect(s, n2, p) ELSE n2
      n4 == IF ch \cap {"debounced", "dependencyKey", "params"} # {}
            THEN KickoffEffect(s, n3, p) ELSE n3
      n5 == IF ch \cap {"page", "hasMore", "debounced", "loadData"} # {}
            THEN LoadMoreEffect(s, n4, p) ELSE n4
  IN n5

\* the dependencies that a state update changes
StateDeps(s, p) == [page |-> s.page, hasMore |-> s.hasMore, itemsById |-> ItemsRef(s, p)]

Changed(d0, d1) == {k \in DOMAIN d0 : d0[k] # d1[k]}

\* render, run the effects, and render again while they update the state
RECURSIVE Settle(_, _, _)
Settle(s, p, ch) ==
  LET n == RunEffects(s, p, ch) IN
  IF n.over \/ n = s THEN n
  ELSE Settle(n, p, Changed(StateDeps(s, p), StateDeps(n, p)))

(***************************************************************************)
(* Events.                                                                 *)
(***************************************************************************)
\* the state after the event: s1 and p1 are the state and the props of the
\* first render the event causes, ch0 the dependencies the event itself changed
After(s1, p1, ch0) == Settle(s1, p1, ch0 \cup Changed(StateDeps(Cur, Ctx), StateDeps(s1, p1)))

\* the event is explored only within the bounds
Commit(r) ==
  /\ ~r.over
  /\ data' = r.data
  /\ page' = r.page
  /\ hasMore' = r.hasMore
  /\ fetching' = r.fetching
  /\ isPagingRef' = r.isPaging
  /\ lastKickoffKeyRef' = r.lastKey
  /\ calls' = r.calls
  /\ queries' = r.queries
  /\ lookups' = r.lookups
  /\ snap' = r.snap

Config == <<multiple, dataAdapter, scope>>

\* the session: the dependencyKey the reset effect compares, and the params
\* text and the debounced term of the kickoff key
Session == <<dependencyKey, ParamsText(params), debouncedSearchTerm>>

\* history: the page numbers requested in the session, with those of the list
\* calls the step issued
Track ==
  requested' = IF "requested" \in scope.history
               THEN (IF Session' = Session THEN requested ELSE {}) \cup Range(last'.issued)
               ELSE requested

\* one more prop change or search input, within the bound
Change == changes < scope.changeCap /\ changes' = changes + 1

Selections == IF multiple THEN SeqsNoDup(Values, 2) ELSE SeqsNoDup(Values, 1)

\* the parent passes another value: selectedSet and loadData are made anew
SetValue(v) ==
  /\ mounted
  /\ Change
  /\ v # value
  /\ value' = v
  /\ ldFetching' = fetching
  /\ failed' = FALSE
  /\ LET r == After(Cur, [Ctx EXCEPT !.value = v, !.ldFetching = fetching], {"loadData"})
     IN Commit(r) /\ last' = Ev("SetValue", NoCall, NoSig, r)
  /\ UNCHANGED <<Config, mounted, superseded, params, dependencyKey, debug, searchTerm,
                 debouncedSearchTerm, timer, quiet>>
  /\ Track

\* the parent passes another params object (its content may be the same):
\* loadData is made anew
SetParams(pv) ==
  /\ mounted
  /\ Change
  /\ pv = Undefined => params # Undefined
  /\ params' = pv
  /\ ldFetching' = fetching
  /\ failed' = FALSE
  /\ LET r == After(Cur, [Ctx EXCEPT !.params = pv, !.ldFetching = fetching],
                    {"params", "loadData"})
     IN Commit(r) /\ last' = Ev("SetParams", NoCall, NoSig, r)
  /\ UNCHANGED <<Config, mounted, superseded, value, dependencyKey, debug, searchTerm,
                 debouncedSearchTerm, timer, quiet>>
  /\ Track

\* the parent passes another dependencyKey
SetDependencyKey(k) ==
  /\ mounted
  /\ Change
  /\ k # dependencyKey
  /\ dependencyKey' = k
  /\ failed' = FALSE
  /\ LET r == After(Cur, [Ctx EXCEPT !.dependencyKey = k], {"dependencyKey"})
     IN Commit(r) /\ last' = Ev("SetDependencyKey", NoCall, NoSig, r)
  /\ UNCHANGED <<Config, mounted, superseded, value, params, debug, searchTerm, debouncedSearchTerm,
                 timer, quiet, ldFetching>>
  /\ Track

\* the parent passes another debug: log is made anew, and loadData with it
SetDebug(b) ==
  /\ mounted
  /\ Change
  /\ b # debug
  /\ debug' = b
  /\ ldFetching' = fetching
  /\ LET r == After(Cur, [Ctx EXCEPT !.ldFetching = fetching], {"log", "loadData"})
     IN Commit(r) /\ last' = Ev("SetDebug", NoCall, NoSig, r)
  /\ UNCHANGED <<Config, mounted, superseded, value, params, dependencyKey, searchTerm, debouncedSearchTerm,
                 timer, quiet, failed>>
  /\ Track

\* onSearch: setSearchTerm; the debounce effect (deps [searchTerm]) clears the
\* pending timeout and sets a new one only when the term changed
handleSearch(term) ==
  /\ mounted
  /\ changes < scope.inputCap
  /\ changes' = changes + 1
  /\ searchTerm' = term
  /\ timer' = IF term # searchTerm THEN DebounceMs ELSE timer
  /\ quiet' = 0
  /\ last' = Ev("handleSearch", NoCall, NoSig, Cur)
  /\ UNCHANGED <<Config, mounted, superseded, value, params, dependencyKey, debug, data, page,
                 hasMore, fetching,
                 debouncedSearchTerm, isPagingRef, lastKickoffKeyRef, ldFetching, calls,
                 queries, lookups, snap, failed>>
  /\ Track

\* scope.tickMs pass; the timeout, when it is due, calls
\* setDebouncedSearchTerm(searchTerm)
Tick ==
  /\ mounted
  /\ timer > 0
  /\ timer' = IF timer > scope.tickMs THEN timer - scope.tickMs ELSE 0
  /\ quiet' = IF quiet + scope.tickMs < DebounceMs THEN quiet + scope.tickMs ELSE DebounceMs
  /\ IF timer' = 0
     THEN /\ debouncedSearchTerm' = searchTerm
          /\ failed' = (failed /\ searchTerm = debouncedSearchTerm)
          /\ LET r == After(Cur, [Ctx EXCEPT !.debounced = searchTerm],
                            IF searchTerm # debouncedSearchTerm THEN {"debounced"} ELSE {})
             IN /\ Commit(r)
                /\ last' = Ev(IF searchTerm # debouncedSearchTerm THEN "Settled" ELSE "Tick",
                              NoCall, NoSig, r)
     ELSE /\ last' = Ev("Tick", NoCall, NoSig, Cur)
          /\ UNCHANGED <<debouncedSearchTerm, data, page, hasMore, fetching, isPagingRef,
                         lastKickoffKeyRef, calls, queries, lookups, snap, failed>>
  /\ UNCHANGED <<Config, mounted, superseded, value, params, dependencyKey, debug, searchTerm,
                 ldFetching, changes>>
  /\ Track

\* a variant of handleScroll whose guard does not read hasMore
handleScrollIgnoreHasMore ==
  /\ mounted
  /\ (~fetching /\ ~isPagingRef) => page < scope.pageCap
  /\ LET r == IF ~fetching /\ ~isPagingRef
              THEN After([Cur EXCEPT !.isPaging = TRUE, !.page = @ + 1], Ctx, {})
              ELSE Cur
     IN Commit(r) /\ last' = Ev("handleScroll", NoCall, NoSig, r)
  /\ UNCHANGED <<Config, mounted, superseded, value, params, dependencyKey, debug, searchTerm,
                 debouncedSearchTerm,
                 timer, quiet, ldFetching, changes, failed>>
  /\ Track

\* onPopupScroll with the list scrolled to the bottom
handleScroll ==
  /\ mounted
  /\ (hasMore /\ ~fetching /\ ~isPagingRef) => page < scope.pageCap
  /\ LET r == IF hasMore /\ ~fetching /\ ~isPagingRef
              THEN After([Cur EXCEPT !.isPaging = TRUE, !.page = @ + 1], Ctx, {})
              ELSE Cur
     IN Commit(r) /\ last' = Ev("handleScroll", NoCall, NoSig, r)
  /\ UNCHANGED <<Config, mounted, superseded, value, params, dependencyKey, debug, searchTerm,
                 debouncedSearchTerm,
                 timer, quiet, ldFetching, changes, failed>>
  /\ Track

\* the list responses of the adapter
Responses == {[items |-> it, sig |-> sg] : it \in dataAdapter.pages, sg \in dataAdapter.signals}

\* the first page-1 call of the current kickoff key has settled
SnapAfter(s, c) == IF c.kick /\ c.cur THEN {} ELSE s.snap

\* the rest of loadData's try block once adapter.list has resolved, and its
\* finally block; c is the call, res the response
loadDataThen(s, c, res) ==
  [s EXCEPT !.calls = @ (-) SetToBag({c}),
            !.data = MergePage(@, c.page, res.items, c.sel),
            !.hasMore = NextHasMore(res.sig, c.page),
            !.fetching = FALSE,
            !.isPaging = FALSE,
            !.snap = SnapAfter(s, c)]

\* a variant of loadDataCatch without setHasMore(false)
loadDataCatchKeepHasMore(s, c) ==
  [s EXCEPT !.calls = @ (-) SetToBag({c}),
            !.fetching = FALSE,
            !.isPaging = FALSE,
            !.snap = SnapAfter(s, c)]

\* loadData's catch block once adapter.list has rejected, and its finally block
loadDataCatch(s, c) ==
  [s EXCEPT !.calls = @ (-) SetToBag({c}),
            !.hasMore = FALSE,
            !.fetching = FALSE,
            !.isPaging = FALSE,
            !.snap = SnapAfter(s, c)]

\* adapter.list resolves
ListSuccess(c, res) ==
  /\ mounted
  /\ c \in BagToSet(calls)
  /\ LET r == After(loadDataThen(Cur, c, res), Ctx, {})
     IN /\ Commit(r)
        /\ last' = [Ev("ListSuccess", c, res.sig, r)
                      EXCEPT !.had = Len(data), !.stored = loadDataThen(Cur, c, res).data]
  /\ UNCHANGED <<Config, mounted, superseded, value, params, dependencyKey, debug, searchTerm,
                 debouncedSearchTerm,
                 timer, quiet, ldFetching, changes, failed>>
  /\ Track

\* adapter.list rejects
ListFailure(c) ==
  /\ mounted
  /\ c \in BagToSet(calls)
  /\ failed' = TRUE
  /\ LET r == After(loadDataCatch(Cur, c), Ctx, {})
     IN Commit(r) /\ last' = Ev("ListFailure", c, NoSig, r)
  /\ UNCHANGED <<Config, mounted, superseded, value, params, dependencyKey, debug, searchTerm,
                 debouncedSearchTerm,
                 timer, quiet, ldFetching, changes>>
  /\ Track

\* the results queryFn may return for the missing values ids: [] when the
\* adapter has no lookup for them, else one { id, item } per id
RECURSIVE LookupResults(_)
LookupResults(ids) ==
  IF Len(ids) = 0 THEN {<<>>}
  ELSE {<<[id |-> ids[1], label |-> l]>> \o t :
          l \in LookupLabels(ids[1]), t \in LookupResults(Tail(ids))}

\* the adapter calls queryFn makes for the missing values ids: one
\* getByIds(ids), or one getById per id, all started by the one map/Promise.all
NoLookupCalls == [getByIds |-> <<>>, getById |-> <<>>]

\* a variant of LookupCalls that calls getByIds for a single id as well
LookupCallsBulkFirst(ids) ==
  IF Len(ids) = 0 THEN NoLookupCalls
  ELSE IF dataAdapter.getByIds THEN [getByIds |-> <<ids>>, getById |-> <<>>]
  ELSE IF ~dataAdapter.getById THEN NoLookupCalls
  ELSE [getByIds |-> <<>>, getById |-> ids]

LookupCalls(ids) ==
  IF Len(ids) = 0 THEN NoLookupCalls
  ELSE IF dataAdapter.getByIds /\ Len(ids) > 1 THEN [getByIds |-> <<ids>>, getById |-> <<>>]
  ELSE IF ~dataAdapter.getById THEN NoLookupCalls
  ELSE [getByIds |-> <<>>, getById |-> ids]

queryFn(ids) ==
  IF dataAdapter.getByIds /\ Len(ids) > 1 THEN LookupResults(ids)
  ELSE IF ~dataAdapter.getById THEN {<<>>}
  ELSE LookupResults(ids)

\* queryFn of the query k has returned res and the cache stores it
QuerySettled(k, res, e) ==
  /\ mounted
  /\ LET r == After([Cur EXCEPT !.lookups = @ \ {k}, !.queries = (k :> res) @@ @], Ctx, {})
     IN Commit(r) /\ last' = Ev(e, NoCall, NoSig, r)
  /\ superseded' = IF "superseded" \in scope.history /\ k # QueryKey(Cur, Ctx)
                    THEN superseded \cup {k}
                    ELSE superseded
  /\ UNCHANGED <<Config, mounted, value, params, dependencyKey, debug, searchTerm,
                 debouncedSearchTerm, timer, quiet, ldFetching, changes, failed>>
  /\ Track

\* the adapter calls of the query k settle (a getById call that rejects counts
\* as null, a getByIds call resolves) and queryFn returns
LookupDone(k, res) ==
  /\ k \in lookups
  /\ res \in queryFn(k[1])
  /\ QuerySettled(k, res, "LookupDone")

\* a variant of getByIdsCatch that finds every id, as a per-item fallback may
getByIdsCatchFallback(ids) == [i \in DOMAIN ids |-> [id |-> ids[i], label |-> ids[i] \o "!"]]

\* the catch block of queryFn's bulk branch: { id, item: null } for every id
getByIdsCatch(ids) == [i \in DOMAIN ids |-> [id |-> ids[i], label |-> Null]]

\* the getByIds call of the query k rejects
GetByIdsRejected(k) ==
  /\ k \in lookups
  /\ LookupCalls(k[1]).getByIds # <<>>
  /\ QuerySettled(k, getByIdsCatch(k[1]), "GetByIdsRejected")

\* a variant of Unmount that leaves the pending timeout
UnmountKeepTimer ==
  /\ mounted
  /\ changes <= scope.teardownCap
  /\ mounted' = FALSE
  /\ last' = Ev("Unmount", NoCall, NoSig, Cur)
  /\ UNCHANGED <<Config, superseded, value, params, dependencyKey, debug, data, page,
                 hasMore, fetching, searchTerm, debouncedSearchTerm, isPagingRef,
                 lastKickoffKeyRef, ldFetching, timer, quiet, calls, queries, lookups,
                 changes, snap, failed>>
  /\ Track

\* the parent removes the instance: the cleanup of the debounce effect runs
\* clearTimeout(t); the state is kept as the last render saw it
Unmount ==
  /\ mounted
  /\ changes <= scope.teardownCap
  /\ mounted' = FALSE
  /\ timer' = 0
  /\ last' = Ev("Unmount", NoCall, NoSig, Cur)
  /\ UNCHANGED <<Config, superseded, value, params, dependencyKey, debug, data, page,
                 hasMore, fetching, searchTerm, debouncedSearchTerm, isPagingRef,
                 lastKickoffKeyRef, ldFetching, quiet, calls, queries, lookups,
                 changes, snap, failed>>
  /\ Track

\* adapter.list settles after the teardown: the rest of loadData runs, React
\* drops its state updates (no render and no effect follows), and the finally
\* block clears the ref
ListSettledDetached(c) ==
  /\ ~mounted
  /\ c \in BagToSet(calls)
  /\ calls' = calls (-) SetToBag({c})
  /\ isPagingRef' = FALSE
  /\ last' = Ev("ListSettledDetached", c, NoSig, Cur)
  /\ UNCHANGED <<Config, mounted, superseded, value, params, dependencyKey, debug, data,
                 page, hasMore, fetching, searchTerm, debouncedSearchTerm,
                 lastKickoffKeyRef, ldFetching, timer, quiet, queries, lookups, changes,
                 snap, failed>>
  /\ Track

\* queryFn of the query k returns after the teardown: the cache stores the
\* result, and no observer is left to render it
LookupSettledDetached(k, res) ==
  /\ ~mounted
  /\ k \in lookups
  /\ \/ res \in queryFn(k[1])
     \/ LookupCalls(k[1]).getByIds # <<>> /\ res = getByIdsCatch(k[1])
  /\ lookups' = lookups \ {k}
  /\ queries' = (k :> res) @@ queries
  /\ last' = Ev("LookupSettledDetached", NoCall, NoSig, Cur)
  /\ UNCHANGED <<Config, mounted, superseded, value, params, dependencyKey, debug, data,
                 page, hasMore, fetching, searchTerm, debouncedSearchTerm, isPagingRef,
                 lastKickoffKeyRef, ldFetching, timer, quiet, calls, changes, snap, failed>>
  /\ Track

(***************************************************************************)
(* The specification.                                                      *)
(***************************************************************************)
\* before the first render
Unmounted ==
  [data |-> <<>>, page |-> 1, hasMore |-> TRUE, fetching |-> FALSE, isPaging |-> FALSE,
   lastKey |-> Null, calls |-> EmptyBag, queries |-> [k \in {} |-> <<>>], lookups |-> {},
   snap |-> {}, issued |-> <<>>, over |-> FALSE]

AllDeps == {"dependencyKey", "itemsById", "log", "debounced", "params", "page", "hasMore",
            "loadData"}

Adapter(one, bulk, pgs, sigs) ==
  [getById |-> one, getByIds |-> bulk, pages |-> pgs, signals |-> sigs]

\* what a run explores
Scope(t, pc, ic, cc, td, h) ==
  [tickMs |-> t, pageCap |-> pc, inputCap |-> ic, changeCap |-> cc, teardownCap |-> td,
   history |-> h]

\* the state after the first render and its effects (every effect runs)
Mounted(configs, sc) ==
  /\ \E cfg \in configs : multiple = cfg[1] /\ dataAdapter = cfg[2]
  /\ scope = sc
  /\ value \in Selections
  /\ params = Undefined
  /\ dependencyKey = Undefined
  /\ debug = FALSE
  /\ mounted = TRUE
  /\ changes = 0
  /\ searchTerm = ""
  /\ debouncedSearchTerm = ""
  /\ ldFetching = FALSE
  /\ timer = DebounceMs
  /\ quiet = 0
  /\ LET r == Settle(Unmounted,
                     [value |-> value, params |-> params, dependencyKey |-> dependencyKey,
                      debounced |-> "", ldFetching |-> FALSE, caps |-> dataAdapter],
                     AllDeps)
     IN /\ data = r.data
        /\ page = r.page
        /\ hasMore = r.hasMore
        /\ fetching = r.fetching
        /\ isPagingRef = r.isPaging
        /\ lastKickoffKeyRef = r.lastKey
        /\ calls = r.calls
        /\ queries = r.queries
        /\ lookups = r.lookups
        /\ snap = r.snap
        /\ last = Ev("mount", NoCall, NoSig, r)
  /\ failed = FALSE
  /\ superseded = {}
  /\ requested = IF "requested" \in scope.history THEN Range(last.issued) ELSE {}

\* a single select over an adapter with getById, a multiple select over an
\* adapter with getById and getByIds
MainConfigs ==
  { <<FALSE, Adapter(TRUE, FALSE, PageItems, CursorSignals)>>,
    <<TRUE, Adapter(TRUE, TRUE, PageItems, CursorSignals)>> }

Init == Mounted(MainConfigs, Scope(DebounceMs, MaxPage, MaxChanges, MaxChanges, 0, {}))

Next ==
  \/ \E v \in Selections : SetValue(v)
  \/ \E pv \in ParamsValues : SetParams(pv)
  \/ \E k \in DependencyKeys : SetDependencyKey(k)
  \/ \E b \in BOOLEAN : SetDebug(b)
  \/ \E term \in Terms : handleSearch(term)
  \/ Tick
  \/ handleScroll
  \/ \E c \in BagToSet(calls), res \in Responses : ListSuccess(c, res)
  \/ \E c \in BagToSet(calls) : ListFailure(c)
  \/ \E k \in lookups : \E res \in queryFn(k[1]) : LookupDone(k, res)
  \/ \E k \in lookups : GetByIdsRejected(k)
  \/ Unmount
  \/ \E c \in BagToSet(calls) : ListSettledDetached(c)
  \/ \E k \in lookups : \E res \in queryFn(k[1]) \cup {getByIdsCatch(k[1])} :
       LookupSettledDetached(k, res)

Spec == Init /\ [][Next]_vars

\* a multiple select over an adapter that answers { items, hasMore },
\* { items, total } or neither field
TotalPages == {<<>>, <<Opt("u1", "Ann")>>}
TotalConfigs == {<<TRUE, Adapter(TRUE, TRUE, TotalPages, CursorSignals \cup TotalSignals)>>}

InitTotal == Mounted(TotalConfigs, Scope(DebounceMs, MaxPage, MaxChanges, MaxChanges, 0, {}))

SpecTotal == InitTotal /\ [][Next]_vars

\* a multiple select over an adapter with 25 items that answers
\* { items, total: 25 }; scrolling may go two pages further
Total25Pages == {<<Opt("u1", "Ann")>>, <<Opt("u2", "Bob")>>}
Total25Configs == {<<TRUE, Adapter(TRUE, TRUE, Total25Pages, {Sig("total", FALSE, 25)})>>}

InitTotal25 == Mounted(Total25Configs, Scope(DebounceMs, MaxPage + 2, MaxChanges, MaxChanges, 0, {}))

SpecTotal25 == InitTotal25 /\ [][Next]_vars

\* a multiple select over an adapter with one empty page; time passes in
\* thirds of the debounce window, and two search inputs more are explored
DebouncePages == {<<>>}
DebounceConfigs ==
  {<<TRUE, Adapter(TRUE, TRUE, DebouncePages, {Sig("hasMore", FALSE, 0)})>>}

InitDebounce ==
  Mounted(DebounceConfigs, Scope(DebounceMs \div 3, MaxPage, MaxChanges + 2, MaxChanges, 0, {}))

SpecDebounce == InitDebounce /\ [][Next]_vars

\* multiple selects over adapters with both lookups, with getById only and
\* with getByIds only, whose pages hold an option that cannot be selected
LookupPages == {<<Opt("u3", "Cy")>>, <<Opt("u3", "Cy"), Opt("u1", "Ann")>>}
LookupConfigs ==
  { <<TRUE, Adapter(TRUE, TRUE, LookupPages, {Sig("hasMore", TRUE, 0)})>>,
    <<TRUE, Adapter(TRUE, FALSE, LookupPages, {Sig("hasMore", TRUE, 0)})>>,
    <<TRUE, Adapter(FALSE, TRUE, LookupPages, {Sig("hasMore", TRUE, 0)})>> }

InitLookup ==
  Mounted(LookupConfigs, Scope(DebounceMs, MaxPage, MaxChanges, MaxChanges, 0, {}))

SpecLookup == InitLookup /\ [][Next]_vars

\* a multiple select over an adapter with both lookups whose pages are empty
\* (data holds injected options only); one prop change or search input more
\* is explored, and the history superseded is kept
CachePages == {<<>>}
CacheConfigs == {<<TRUE, Adapter(TRUE, TRUE, CachePages, {Sig("hasMore", FALSE, 0)})>>}

InitCache ==
  Mounted(CacheConfigs, Scope(DebounceMs, MaxPage, MaxChanges + 1, MaxChanges + 1, 0, {"superseded"}))

SpecCache == InitCache /\ [][Next]_vars

\* a multiple select over an adapter with one empty page; time passes in
\* thirds of the debounce window, one search input more is explored, and the
\* teardown is explored after every count of changes
InitTeardown ==
  Mounted(DebounceConfigs,
          Scope(DebounceMs \div 3, MaxPage, MaxChanges + 1, MaxChanges, MaxChanges + 1, {}))

SpecTeardown == InitTeardown /\ [][Next]_vars

\* a multiple select over an adapter with both lookups and one page of one
\* option; the history requested is kept
SessionPages == {<<Opt("u1", "Ann")>>}
SessionConfigs == {<<TRUE, Adapter(TRUE, TRUE, SessionPages, CursorSignals)>>}

InitSession ==
  Mounted(SessionConfigs,
          Scope(DebounceMs, MaxPage, MaxChanges, MaxChanges, 0, {"requested"}))

SpecSession == InitSession /\ [][Next]_vars

\* a multiple select over an adapter with both lookups whose only page is
\* empty or holds an option that cannot be selected; one prop change or search
\* input more is explored
FramePages == {<<>>, <<Opt("u3", "Cy")>>}
FrameConfigs == {<<TRUE, Adapter(TRUE, TRUE, FramePages, {Sig("hasMore", FALSE, 0)})>>}

InitFrame ==
  Mounted(FrameConfigs, Scope(DebounceMs, MaxPage, MaxChanges + 1, MaxChanges + 1, 0, {}))

SpecFrame == InitFrame /\ [][Next]_vars

(***************************************************************************)
(* The properties.                                                         *)
(***************************************************************************)
\* the value handed to Select in this state
Exposed == effectiveValue(value, multiple, data)

\* the entry of d for v has a resolved label: not empty, not the value itself
Resolved(d, v) == \E o \in Range(d) : o.value = v /\ o.label # "" /\ o.label # v

\* C1: no two entries of data have the same value, in every reachable state
C1_NoDuplicates ==
  \A i, j \in DOMAIN data : i # j => data[i].value # data[j].value

\* a page that repeats the value u1 has been merged after page 1, and data
\* holds a second value besides
C1_Witness ==
  /\ last.ev = "ListSuccess"
  /\ last.page > 1
  /\ Opt("u1", "Anna") \in Range(data)
  /\ Len(data) = 2

\* C2: an option that is selected and has a resolved label when the kickoff
\* key changes is in data, with the same label, right after the first page-1
\* call of the new key has resolved
C2_SelectionSurvivesReset ==
  [][(last'.ev = "ListSuccess" /\ last'.kick /\ last'.cur)
       => \A o \in snap : o \in Range(data')]_vars

\* C3: at most one adapter.list call is in flight, in every reachable state
C3_SingleFlight == BagCardinality(calls) <= 1

\* C4: the response of a list call that was issued under an earlier kickoff
\* key leaves data, hasMore and fetching as they were
C4_StaleResponseIgnored ==
  [][(last'.ev = "ListSuccess" /\ ~last'.cur)
       => (data' = data /\ hasMore' = hasMore /\ fetching' = fetching)]_vars

\* C5: every value handed to Select is selected and has an entry of data with
\* a resolved label, in every reachable state of a single and of a multiple
\* select
C5_ExposedResolved ==
  \A v \in Range(Exposed) : v \in Range(value) /\ Resolved(data, v)

\* a multiple select with two selected values of which one is resolved and
\* handed to Select, and the other is in data with a label that is not resolved
C5_Witness ==
  /\ multiple
  /\ Len(value) = 2
  /\ Len(Exposed) = 1
  /\ \A v \in Range(value) : HasValue(data, v)

\* C6: the value handed to a multiple select is the selected values that have
\* a resolved label, in the order of the selection; the value handed to a
\* single select is the selected value when it has a resolved label, and
\* nothing otherwise
C6_ExposedExact ==
  Exposed = IF multiple THEN SelectSeq(value, LAMBDA v : Resolved(data, v))
            ELSE IF value # <<>> /\ Resolved(data, value[1]) THEN value
            ELSE <<>>

\* a multiple select whose second selected value is resolved and handed to
\* Select while the first is not
C6_Witness ==
  /\ multiple
  /\ Len(value) = 2
  /\ ~Resolved(data, value[1])
  /\ Exposed = <<value[2]>>

C8_PagingStopsAtThree ==
  /\ last.ev = "ListSuccess" => (hasMore <=> last.page < 3)
  /\ \A c \in BagToSet(calls) : c.cur => c.page <= 3

\* C9: when adapter.list rejects, hasMore and fetching are false afterwards
\* and data is what it was before
C9_FailureContained ==
  [][last'.ev = "ListFailure" => (~hasMore' /\ ~fetching' /\ data' = data)]_vars

\* the call for a page after the first has rejected while data held options
C9_Witness ==
  /\ last.ev = "ListFailure"
  /\ last.page > 1
  /\ data # <<>>
  /\ ~hasMore
  /\ ~fetching

\* C10: once a list call has rejected, an event that is no change of the
\* selection, of the settled search term, of params or of dependencyKey issues
\* no list call, and each such change issues a list call for page 1
C10_RetryOnlyOnTrigger ==
  [][/\ (failed /\ failed') => last'.issued = <<>>
     /\ (failed /\ ~failed') => 1 \in Range(last'.issued)]_vars

\* C11: the debounced term changes only when the timeout fires, and the
\* timeout fires DebounceMs after the last onSearch call (so not while calls
\* keep arriving less than DebounceMs apart) and sets the term fed last
C11_DebounceCollapse ==
  [][/\ debouncedSearchTerm' # debouncedSearchTerm => (timer > 0 /\ timer' = 0)
     /\ (timer > 0 /\ timer' = 0)
          => (quiet' = DebounceMs /\ debouncedSearchTerm' = searchTerm)]_vars

\* C12: an event that changes the kickoff key sets page to 1 and hasMore to
\* true and issues exactly one list call for page 1, with the new debounced
\* term and params; an event that leaves the key unchanged issues no list call
\* for page 1
C12_KickoffOnKeyChange ==
  [][IF KickoffKey(Ctx)' # KickoffKey(Ctx)
     THEN /\ page' = 1
          /\ hasMore'
          /\ Cardinality({i \in DOMAIN last'.issued : last'.issued[i] = 1}) = 1
          /\ \E c \in BagToSet(calls') :
               /\ c.page = 1 /\ c.cur
               /\ c.search = debouncedSearchTerm'
               /\ c.params = params'
     ELSE 1 \notin Range(last'.issued)]_vars

\* C13: every change of dependencyKey (the reset effect clears data and the
\* pagination state) issues a list call for page 1
C13_DependencyChangeReloads ==
  [][dependencyKey' # dependencyKey => 1 \in Range(last'.issued)]_vars

\* the query that settles in this step, if one does
Settling == lookups \ lookups'

\* a lookup result in the cache holds an item for id
ResolvedByLookup(q, id) ==
  \E k \in DOMAIN q : \E r \in Range(q[k]) : r.id = id /\ r.label # Null

\* C14: a query for more than one missing value over an adapter with getByIds
\* makes one getByIds call with exactly the missing values and no getById
\* call; when its result arrives for the missing values of the render, every
\* item it returned is put in front of the options data held, which keep
\* their order, and an id it did not return is in data and in the value handed
\* to Select only if another lookup result holds an item for it
C14_BulkLookup ==
  [][\A k \in Settling :
       (last'.ev = "LookupDone" /\ dataAdapter.getByIds /\ Len(k[1]) > 1
          /\ k = QueryKey(Cur, Ctx))
       => LET res == queries'[k]
              new == Len(data') - Len(data)
          IN /\ LookupCalls(k[1]) = [getByIds |-> <<missingValues(value, data)>>,
                                     getById |-> <<>>]
             /\ new >= 0
             /\ SubSeq(data', new + 1, Len(data')) = data
             /\ \A r \in Range(res) :
                  IF r.label # Null
                  THEN \E i \in 1..new : data'[i] = Opt(r.id, r.label)
                  ELSE (HasValue(data', r.id) \/ r.id \in Range(Exposed'))
                         => ResolvedByLookup(queries', r.id)]_vars

\* getByIds has returned an item for the second of two missing values only: it
\* is in front of the options of a page, and the first is not in data
C14_Witness ==
  /\ last.ev = "LookupDone"
  /\ Len(value) = 2
  /\ Len(data) >= 2
  /\ data[1].value = value[2]
  /\ ~HasValue(data, value[1])
  /\ Exposed = <<value[2]>>

\* C15: when the getByIds call of a query rejects, data is what it was (no
\* option is injected for an id of the batch) and no query that starts in the
\* same step calls getById for an id of the batch
C15_BulkFailure ==
  [][last'.ev = "GetByIdsRejected"
       => /\ data' = data
          /\ \A k \in Settling : \A k2 \in lookups' \ lookups :
               Range(LookupCalls(k2[1]).getById) \cap Range(k[1]) = {}]_vars

\* getByIds has rejected for two missing values over an adapter that has
\* getById as well; data holds an option of a page and no lookup is running
C15_Witness ==
  /\ last.ev = "GetByIdsRejected"
  /\ dataAdapter.getById
  /\ Len(missingValues(value, data)) = 2
  /\ data # <<>>
  /\ lookups = {}

\* C16: a running query over an adapter without getByIds, or for exactly one
\* missing value, has made one getById call for each of its missing values,
\* all of them started together, and no getByIds call
C16_PerItemLookup ==
  \A k \in lookups :
    (~dataAdapter.getByIds \/ Len(k[1]) = 1)
      => LookupCalls(k[1]) = [getByIds |-> <<>>, getById |-> k[1]]

\* C16, amended: the same for an adapter that has getById; over an adapter
\* without getById a running query has made no getById call
C16_PerItemLookupWithGetById ==
  \A k \in lookups :
    /\ (dataAdapter.getById /\ (~dataAdapter.getByIds \/ Len(k[1]) = 1))
         => LookupCalls(k[1]) = [getByIds |-> <<>>, getById |-> k[1]]
    /\ ~dataAdapter.getById => LookupCalls(k[1]).getById = <<>>

\* over an adapter with getById only, the query for two missing values is
\* running next to the query for one of them
C16_Witness ==
  /\ dataAdapter.getById
  /\ ~dataAdapter.getByIds
  /\ \E k \in lookups : Len(k[1]) = 2
  /\ \E k \in lookups : Len(k[1]) = 1

\* C17: when the getById calls of a query for several missing values have
\* settled and the result arrives for the missing values of the render, every
\* id whose call returned an item is in data with its label, whatever the
\* other calls did, and an id whose call rejected (or returned null) is in data
\* only if another lookup result holds an item for it
C17_PerItemFailureIsolated ==
  [][\A k \in Settling :
       (last'.ev = "LookupDone" /\ Len(LookupCalls(k[1]).getById) > 1
          /\ k = QueryKey(Cur, Ctx))
       => \A r \in Range(queries'[k]) :
            IF r.label # Null
            THEN Opt(r.id, r.label) \in Range(data')
            ELSE HasValue(data', r.id) => ResolvedByLookup(queries', r.id)]_vars

\* over an adapter with getById only, the call for the first of two missing
\* values has rejected and the call for the second has returned an item, which
\* is in data in front of an option of a page
C17_Witness ==
  /\ last.ev = "LookupDone"
  /\ ~dataAdapter.getByIds
  /\ Len(value) = 2
  /\ ~HasValue(data, value[1])
  /\ Len(data) = 2
  /\ data[1].value = value[2]
  /\ \E k \in DOMAIN queries : Len(queries[k]) = 2 /\ queries[k][1].label = Null

\* no lookup has failed: every lookup result holds an item for each of its ids
LookupsSucceed ==
  \A k \in DOMAIN queries : \A r \in Range(queries[k]) : r.label # Null

\* no promise of the adapter and no debounce timeout is pending
Quiet == lookups = {} /\ BagCardinality(calls) = 0 /\ timer = 0

\* every selected value has a resolved label in data and is handed to Select
AllResolved == \A v \in Range(value) : Resolved(data, v) /\ v \in Range(Exposed)

\* C18: over an adapter with getById or getByIds whose lookups have all
\* succeeded, once nothing is pending any more every selected value, be it one
\* or several, has a resolved label in data and is handed to Select (a value
\* that is not resolved by then stays unresolved until the parent or the user
\* acts)
C18_ResolvedWhenQuiet ==
  ((dataAdapter.getById \/ dataAdapter.getByIds) /\ LookupsSucceed /\ Quiet) => AllResolved

\* C19: a scroll to the bottom while a list call is in flight issues no list
\* call and leaves page as it is; a scroll to the bottom while none is in
\* flight and hasMore is true issues exactly one list call (and the scrolls
\* that follow it fall under the first case)
C19_ScrollSingleFlight ==
  [][last'.ev = "handleScroll"
       => IF BagCardinality(calls) > 0
          THEN last'.issued = <<>> /\ page' = page
          ELSE hasMore => Len(last'.issued) = 1]_vars

\* isLoading of useQuery for the query key of the render, as the set of values
\* the installed @tanstack/react-query can report: false once the key has a
\* result, true while queryFn runs for it; for a key with no result whose
\* queryFn is not running (the query is disabled) version 4 reports true and
\* version 5 false
loadingItemById ==
  LET k == QueryKey(Cur, Ctx) IN
  IF k \in DOMAIN queries THEN {FALSE}
  ELSE IF k \in lookups THEN {TRUE}
  ELSE BOOLEAN

\* loading={fetching || loadingItemById}
loading == {fetching \/ l : l \in loadingItemById}

\* a list call is in flight
ListPending == BagCardinality(calls) > 0

\* C20: the busy indicator handed to Select is true exactly when a list call is
\* in flight or a label lookup is pending (for the selection of the render, or
\* any lookup at all), under at least one of the values the query library can
\* report for a disabled query
C20_BusyWhilePending ==
  \E b \in loading :
    \/ b <=> (ListPending \/ QueryKey(Cur, Ctx) \in lookups)
    \/ b <=> (ListPending \/ lookups # {})

\* C21: a change of the debug prop issues no adapter call and leaves page,
\* hasMore, fetching, data, the calls in flight, the running lookups and the
\* value handed to Select as they are (so the instance goes on like one whose
\* debug never changed)
C21_DebugChangesNothing ==
  [][debug' # debug
       => /\ last'.issued = <<>>
          /\ UNCHANGED <<page, hasMore, fetching, data, calls, lookups>>
          /\ Exposed' = Exposed]_vars

\* C22: a scroll to the bottom while fetching is true or hasMore is false
\* changes nothing: page, hasMore, fetching and data stay as they are and no
\* list call is issued
C22_ScrollNoOp ==
  [][(last'.ev = "handleScroll" /\ (fetching \/ ~hasMore))
       => /\ last'.issued = <<>>
          /\ UNCHANGED <<page, hasMore, fetching, data, calls>>]_vars

\* a scroll to the bottom was a no-op: fetching is true with a list call in
\* flight and hasMore true, or hasMore is false with nothing in flight
C22_Witness ==
  /\ last.ev = "handleScroll"
  /\ last.issued = <<>>
  /\ \/ fetching /\ hasMore /\ BagCardinality(calls) > 0
     \/ ~hasMore /\ ~fetching /\ ~isPagingRef /\ BagCardinality(calls) = 0

\* C23: a scroll to the bottom while fetching is false and hasMore is true
\* increments page by one and issues exactly one list call, for the new page
\* number, whatever changed earlier in the run
C23_ScrollLoadsNextPage ==
  [][(last'.ev = "handleScroll" /\ ~fetching /\ hasMore)
       => /\ page' = page + 1
          /\ last'.issued = <<page + 1>>]_vars

\* the entries of d whose value is selected now
Preserved(d) == SelectSeq(d, LAMBDA o : o.value \in selectedSet(value))

\* C24: when a page-1 list call resolves, the setData updater returns the
\* entries of the previous data whose value is selected at that time, in their
\* order, followed by the mapped items of the page, without the later
\* occurrences of a value (for every call in flight and response that give
\* the data the updater returned)
C24_PageOneMerge ==
  [][(last'.ev = "ListSuccess" /\ last'.page = 1)
       => \A c \in BagToSet(calls), res \in Responses :
            (c.page = 1 /\ last'.stored = loadDataThen(Cur, c, res).data)
              => last'.stored = Dedupe(Preserved(data) \o res.items)]_vars

\* C25: when a list call for a page above 1 resolves, the setData updater
\* returns the previous data followed by the mapped items of the page without
\* the later occurrences of a value: every previous entry keeps its position
\* and its label, and what is appended are items of the page with values the
\* previous data did not have (for every call in flight and response that
\* give the data the updater returned)
C25_NextPageAppend ==
  [][(last'.ev = "ListSuccess" /\ last'.page > 1)
       => \A c \in BagToSet(calls), res \in Responses :
            (c.page > 1 /\ last'.stored = loadDataThen(Cur, c, res).data)
              => LET st == last'.stored IN
                 /\ st = Dedupe(data \o res.items)
                 /\ Len(st) >= Len(data)
                 /\ SubSeq(st, 1, Len(data)) = data
                 /\ \A i \in (Len(data) + 1)..Len(st) :
                      st[i] \in Range(res.items) /\ ~HasValue(data, st[i].value)]_vars

\* a call for a page above 1 has resolved over a data of one entry, u1 with
\* the label Anna, with the items u1/Ann and u2/Bob: u1 keeps its label and
\* its place, u2/Bob is appended
C25_Witness ==
  /\ last.ev = "ListSuccess"
  /\ last.page > 1
  /\ last.had = 1
  /\ last.stored = <<Opt("u1", "Anna"), Opt("u2", "Bob")>>

\* C26: when a lookup settles, the options data held stay, with their labels
\* and in their order, behind the options that are put in front of them; an
\* option put in front is an item (not null) of a lookup result, for a value
\* data did not hold, and no two of them have the same value; every item (not
\* null) of the result that arrives for the missing values of the render is
\* put in front
C26_InjectionFrame ==
  [][last'.ev \in {"LookupDone", "GetByIdsRejected"}
       => LET new == Len(data') - Len(data) IN
          /\ new >= 0
          /\ SubSeq(data', new + 1, Len(data')) = data
          /\ \A i \in 1..new :
               /\ ~HasValue(data, data'[i].value)
               /\ \A j \in 1..new : data'[j].value = data'[i].value => j = i
               /\ \E k \in DOMAIN queries' : \E r \in Range(queries'[k]) :
                    r.label # Null /\ data'[i] = Opt(r.id, r.label)
          /\ \A k \in Settling :
               k = QueryKey(Cur, Ctx)
                 => \A r \in Range(queries'[k]) :
                      r.label # Null => \E i \in 1..new : data'[i] = Opt(r.id, r.label)]_vars

\* the lookup of u2 has returned an item while data held the options u3 and
\* u1 of a page: u2 is in front of them, and they are as they were
C26_Witness ==
  /\ last.ev = "LookupDone"
  /\ Len(data) = 3
  /\ data[1].value = "u2"
  /\ data[2] = Opt("u3", "Cy")
  /\ data[3] = Opt("u1", "Ann")

\* an option of data' that data did not hold
Fresh == Range(data') \ Range(data)

\* C27: a lookup result that arrives while the query key of the render (the
\* missing values and the dependencyKey) is not its own leaves data as it is,
\* and an option is put in data only from a result that was the result of the
\* render's query key when it arrived: a superseded result is never injected
C27_StaleResultDiscarded ==
  [][/\ \A k \in Settling : k # QueryKey(Cur, Ctx) => data' = data
     /\ \A o \in Fresh :
          \E k \in DOMAIN queries' \ superseded' : \E r \in Range(queries'[k]) :
            r.label # Null /\ o = Opt(r.id, r.label)]_vars

\* C27, amended: a lookup result that arrives while the query key of the
\* render is not its own leaves data as it is at that time; it stays in the
\* query cache, and an option is put in data only from a cached result whose
\* key has the dependencyKey of the render (undefined and null alike), for a
\* value that is selected
C27_AppliedUnderItsKey ==
  [][/\ \A k \in Settling : k # QueryKey(Cur, Ctx) => data' = data
     /\ \A o \in Fresh :
          \E k \in DOMAIN queries' : \E r \in Range(queries'[k]) :
            /\ r.label # Null /\ o = Opt(r.id, r.label)
            /\ k[2] = HashDep(dependencyKey')
            /\ o.value \in Range(value')]_vars

\* a lookup result with an item for a value that data does not hold has
\* arrived while the query key of the render was another: nothing is injected
C27_Witness ==
  /\ last.ev = "LookupDone"
  /\ \E k \in superseded : \E r \in Range(queries[k]) :
       r.label # Null /\ ~HasValue(data, r.id)

\* the option o is an item of a lookup result in the cache
Injected(o) ==
  \E k \in DOMAIN queries : \E r \in Range(queries[k]) :
    r.label # Null /\ o = Opt(r.id, r.label)

\* C28: when a list call resolves, every option of data that a lookup has
\* injected for a value that is selected is in data afterwards, with its
\* label, and so is every value of the items of the page
C28_NoLostUpdate ==
  [][last'.ev = "ListSuccess"
       => /\ \A o \in Range(data) :
               (o.value \in Range(value) /\ Injected(o)) => o \in Range(data')
          /\ \A c \in BagToSet(calls), res \in Responses :
               (c.page = last'.page /\ last'.stored = loadDataThen(Cur, c, res).data)
                 => \A o \in Range(res.items) : HasValue(data', o.value)]_vars

\* the ids that the adapter calls of a query for the missing values ids pass
\* to getById and to getByIds
LookupIds(ids) ==
  Range(LookupCalls(ids).getById)
    \cup UNION {Range(b) : b \in Range(LookupCalls(ids).getByIds)}

\* C29: every id that a query passes to getById or getByIds when it starts is
\* selected and has no entry in data, at the mount and in every step, and no
\* query starts in a step after which no selected value is missing
C29_LookupOnlyMissing ==
  /\ \A k \in lookups : \A id \in LookupIds(k[1]) :
       id \in Range(value) /\ ~HasValue(data, id)
  /\ [][/\ \A k \in lookups' \ lookups : \A id \in LookupIds(k[1]) :
             id \in Range(value') /\ ~HasValue(data', id)
        /\ missingValues(value', data') = <<>> => lookups' \ lookups = {}]_vars

\* a page has brought the option of one of two selected values, and the query
\* that started then is for the other value alone
C29_Witness ==
  /\ last.ev = "ListSuccess"
  /\ Len(value) = 2
  /\ Len(missingValues(value, data)) = 1
  /\ \E k \in lookups : k[1] = missingValues(value, data) /\ LookupIds(k[1]) = Range(k[1])
  /\ \E k \in lookups : Len(k[1]) = 2

\* C30: every onSearch call, one with the term fed just before included,
\* clears the pending timeout and sets a new one of DebounceMs, so the timeout
\* never fires less than DebounceMs after the last call
C30_FeedRestartsTimer ==
  [][/\ last'.ev = "handleSearch" => timer' = DebounceMs
     /\ (timer > 0 /\ timer' = 0) => quiet' = DebounceMs]_vars

\* C31: the teardown clears the pending debounce timeout; no step after the
\* teardown changes the debounced term or issues a list call, so a term fed
\* before the teardown never settles and is never asked of the adapter
C31_TeardownCancelsTimer ==
  [][~mounted'
       => /\ timer' = 0
          /\ debouncedSearchTerm' = debouncedSearchTerm
          /\ last'.issued = <<>>
          /\ BagToSet(calls') \subseteq BagToSet(calls)
          /\ BagCardinality(calls') <= BagCardinality(calls)]_vars

\* the instance was torn down while the timeout of the term "a" was pending:
\* the list call in flight has settled since, the term has not, and no list
\* call is in flight
C31_Witness ==
  /\ ~mounted
  /\ last.ev = "ListSettledDetached"
  /\ searchTerm = "a"
  /\ debouncedSearchTerm = ""
  /\ quiet < DebounceMs
  /\ BagCardinality(calls) = 0

\* the largest page number in S, 0 for none
MaxOf(S) == IF S = {} THEN 0 ELSE CHOOSE m \in S : \A n \in S : n <= m

\* the list calls of the sequence issued are for consecutive pages after the
\* page numbers in S: each is for a page at most one above the largest so far
RECURSIVE Consecutive(_, _)
Consecutive(S, issued) ==
  IF issued = <<>> THEN TRUE
  ELSE Head(issued) <= MaxOf(S) + 1 /\ Consecutive(S \cup {Head(issued)}, Tail(issued))

\* C32: the first list call after a change of the session (dependencyKey,
\* params or debounced term) is for page 1, and every list call is for a page
\* at most one above the largest page requested since that change
C32_ConsecutivePages ==
  /\ Consecutive({}, last.issued)
  /\ [][Consecutive(IF Session' = Session THEN requested ELSE {}, last'.issued)]_vars

\* C33: no step issues a list call for a page that a list call has been issued
\* for since the last change of the session
C33_NoPageTwice ==
  [][/\ Session' = Session => Range(last'.issued) \cap requested = {}
     /\ \A i, j \in DOMAIN last'.issued : last'.issued[i] = last'.issued[j] => i = j]_vars

\* C34: in every state of a mounted instance, fetching is true only while a
\* list call is in flight, and while none is in flight fetching is false and
\* the paging ref that a scroll or the kickoff effect set is false
C34_FetchingMeansInFlight ==
  mounted => /\ fetching => ListPending
             /\ ~ListPending => (~fetching /\ ~isPagingRef)

\* the options of a are in b, in the order they have in a
RECURSIVE IsSubseq(_, _)
IsSubseq(a, b) ==
  IF a = <<>> THEN TRUE
  ELSE IF b = <<>> THEN FALSE
  ELSE IF Head(a) = Head(b) THEN IsSubseq(Tail(a), Tail(b))
  ELSE IsSubseq(a, Tail(b))

\* the page-1 call of the session is in flight
PageOnePending == \E c \in BagToSet(calls) : c.kick /\ c.cur

\* the step applies the response of the page-1 call of the session
PageOneApplied == last'.ev = "ListSuccess" /\ last'.kick /\ last'.cur

\* C35: a step that changes the debounced term or params and leaves the
\* dependencyKey leaves data as it is; while the page-1 call of the session is
\* in flight, every option of data stays in data, in the same order, in every
\* step but the one that applies its response (or changes the dependencyKey);
\* and when that call rejects data stays as it is
C35_SessionChangeKeepsStore ==
  [][/\ (Session' # Session /\ dependencyKey' = dependencyKey) => data' = data
     /\ (PageOnePending /\ dependencyKey' = dependencyKey /\ ~PageOneApplied)
          => IsSubseq(data, data')
     /\ (last'.ev = "ListFailure" /\ last'.kick /\ last'.cur) => data' = data]_vars

\* the option of data for v has an empty label or the value itself as label
Unlabelled(v) == \E o \in Range(data) : o.value = v /\ (o.label = "" \/ o.label = v)

\* C36: a selected value whose option in data has an empty label, or the value
\* itself as label, is not in the value handed to Select, after any number of
\* list and lookup completions: a multiple select leaves it out, and a single
\* select is handed nothing
C36_UnlabelledHidden ==
  \A v \in Range(value) :
    Unlabelled(v) => /\ v \notin Range(Exposed)
                     /\ ~multiple => Exposed = <<>>

\* a multiple select with u1 and u2 selected after the list call for a page
\* above 1 has resolved: the option of u2 has an empty label and u2 is left
\* out, u1 is handed to Select
C36_Witness ==
  /\ multiple
  /\ last.ev = "ListSuccess"
  /\ last.page > 1
  /\ Opt("u2", "") \in Range(data)
  /\ "u2" \in Range(value)
  /\ Exposed = <<"u1">>

====
